---------------------------- MODULE Spec2Model ----------------------------
(***************************************************************************)
(* Model of fastapi_log_api.py: the in-memory log store (_LOGS, _LOG_MAP), *)
(* its loader load_logs and the request handlers get_logs, get_stats,      *)
(* get_log_by_id and reload_logs.                                          *)
(*                                                                         *)
(* The handlers are plain `def` endpoints, which FastAPI runs on a thread  *)
(* pool, and the module holds no lock: requests interleave.  A thread      *)
(* switch is modelled between the statements of a handler; one statement   *)
(* (a list comprehension, list.sort, list.append, a dict store, the loop   *)
(* of get_stats over the in-memory list) is one step.  The loader reads    *)
(* its files line by line, so every line is a step of its own.             *)
(*                                                                         *)
(* Text is modelled by strings.  str.strip, str.lower, datetime.strptime   *)
(* and datetime.strftime are tabulated over the strings the model uses.    *)
(* A raw line is the sequence of its tab-separated fields, its newline     *)
(* already removed.                                                        *)
(***************************************************************************)
EXTENDS Integers, Sequences, FiniteSets, TLC

VARIABLES
    dir,        \* the content of LOGS_DIR (the environment; fixed in a run)
    LOGS,       \* the list the global _LOGS is bound to
    LOG_MAP,    \* the dict the global _LOG_MAP is bound to
    ld,         \* the threads running load_logs: startup and /reload
    rd,         \* the threads running get_logs, get_stats, get_log_by_id
    reloads     \* number of /reload requests accepted so far

vars == <<dir, LOGS, LOG_MAP, ld, rd, reloads>>

-----------------------------------------------------------------------------
(* Bounds of the model *)

\* /reload worker threads
NumReloaders == 2
\* query worker threads
NumReaders == 1
\* /reload requests in one run
MaxReloads == 2
\* lines in one file
MaxLines == 2
\* largest `limit` a modelled request carries (the code allows up to 1000)
MaxLimit == 2
\* largest `offset` a modelled request carries (the code allows any >= 0)
MaxOffset == 2

-----------------------------------------------------------------------------
(* Text *)

\* The timestamps of the model, as canonical text "%Y-%m-%d %H:%M:%S".
TsText == <<"2024-01-01 10:00:01", "2024-01-01 10:00:02", "2024-01-01 10:00:03">>

\* str.strip() over the strings of the model.
Strip(s) ==
    CASE s = " 2024-01-01 10:00:01 " -> "2024-01-01 10:00:01"
      [] s = " INFO" -> "INFO"
      [] s = "auth " -> "auth"
      [] s = " " -> ""
      [] OTHER -> s

LowerCaseSensitive(s) == s

\* str.lower() over the strings of the model.
Lower(s) ==
    CASE s = "ERROR" -> "error"
      [] s = "INFO" -> "info"
      [] s = " INFO" -> " info"
      [] s = "Auth" -> "auth"
      [] s = "AUTH" -> "auth"
      [] s = "DB" -> "db"
      [] OTHER -> s

\* datetime.strptime(s, LOG_LINE_FORMAT): the datetime (here its number in
\* TsText), or ValueError.  strptime takes fields that are not zero-padded;
\* it takes no surrounding whitespace.
Strptime(s) ==
    CASE s = "2024-01-01 10:00:01" -> [ok |-> TRUE, ts |-> 1]
      [] s = "2024-1-1 10:0:1" -> [ok |-> TRUE, ts |-> 1]
      [] s = "2024-01-01 10:00:02" -> [ok |-> TRUE, ts |-> 2]
      [] s = "2024-01-01 10:00:03" -> [ok |-> TRUE, ts |-> 3]
      [] OTHER -> [ok |-> FALSE, ts |-> 0]

\* ts.strftime(LOG_LINE_FORMAT)
Strftime(ts) == TsText[ts]

\* "\t".join(fields)
RECURSIVE JoinTabs(_)
JoinTabs(fields) ==
    IF Len(fields) = 1 THEN fields[1]
    ELSE fields[1] \o "\t" \o JoinTabs(Tail(fields))

\* line.split("\t", 3): at most 3 splits, the rest stays in the last part
Split3(line) ==
    IF Len(line) <= 4 THEN line
    ELSE SubSeq(line, 1, 3) \o <<JoinTabs(SubSeq(line, 4, Len(line)))>>

\* not line.strip(): the line holds whitespace only (a tab is whitespace)
IsBlank(line) == \A k \in 1..Len(line) : Strip(line[k]) = ""

-----------------------------------------------------------------------------
(* Parsing and identity *)

\* _parse_log_line: the fields of the record, or ValueError
ParseLogLine(line) ==
    LET parts == Split3(line) IN
    IF Len(parts) < 4
    THEN [ok |-> FALSE, ts |-> 0, level |-> "", component |-> "", message |-> ""]
    ELSE LET p == Strptime(Strip(parts[1])) IN
         IF ~p.ok
         THEN [ok |-> FALSE, ts |-> 0, level |-> "", component |-> "", message |-> ""]
         ELSE [ok |-> TRUE, ts |-> p.ts, level |-> Strip(parts[2]),
               component |-> Strip(parts[3]), message |-> Strip(parts[4])]

\* os.path.join(directory, name) with directory = LOGS_DIR
PathOf(name) == "./logs/" \o name

\* os.path.abspath(file_path), the process running in /app
Abspath(path) == "/app/" \o path

\* _make_id: uuid5 of the name; the model keeps the name itself (uuid5 is
\* taken to be injective on names)
MakeId(file_path, line_no, timestamp_str) ==
    <<Abspath(file_path), line_no, timestamp_str>>

\* the LogEntry built at lines 82-93 from line i of the file called name
MakeEntry(name, i, line) ==
    LET p == ParseLogLine(line) IN
    [id |-> MakeId(PathOf(name), i, Strftime(p.ts)),
     timestamp |-> p.ts, level |-> p.level, component |-> p.component,
     message |-> p.message, source_file |-> name, line_number |-> i]

-----------------------------------------------------------------------------
(* The directory *)

\* The names a directory entry can have, in the order sorted() gives them
\* ("." sorts before the letters).
AllNames == <<".c.log", "a.log", "b.log", "sub">>

\* glob's "*" does not match a name that starts with a dot
Hidden(name) == name = ".c.log"

\* sorted(glob.glob(os.path.join(directory, "*"))): the names of the entries
\* that "*" matches, sorted
Glob(d) == SelectSeq(AllNames, LAMBDA n : n \in DOMAIN d.entries /\ ~Hidden(n))

-----------------------------------------------------------------------------
(* The store *)

\* _LOG_MAP[entry_id] = entry
DictPut(m, k, v) == [x \in DOMAIN m \cup {k} |-> IF x = k THEN v ELSE m[x]]

\* _LOG_MAP.get(log_id): a sequence holding the entry, empty for None
DictGet(m, k) == IF k \in DOMAIN m THEN <<m[k]>> ELSE <<>>

\* e goes behind every entry of the sorted list that is not later than it
RECURSIVE InsertByTs(_, _)
InsertByTs(sorted, e) ==
    IF sorted = <<>> THEN <<e>>
    ELSE IF Head(sorted).timestamp <= e.timestamp
         THEN <<Head(sorted)>> \o InsertByTs(Tail(sorted), e)
         ELSE <<e>> \o sorted

RECURSIVE SortFrom(_, _)
SortFrom(sorted, rest) ==
    IF rest = <<>> THEN sorted
    ELSE SortFrom(InsertByTs(sorted, Head(rest)), Tail(rest))

\* _LOGS.sort(key=lambda x: x.timestamp): list.sort is stable
SortByTimestamp(items) == SortFrom(<<>>, items)

-----------------------------------------------------------------------------
(* Threads *)

\* the thread that imports the module and so runs load_logs() at line 104
Main == 0
Loaders == 0..NumReloaders
Readers == 1..NumReaders

\* requests are served once the module is imported
Serving == ld[Main].pc = "done"

IdleLoader == [pc |-> "idle", files |-> <<>>, fi |-> 0, li |-> 0,
               entry |-> <<>>, ingested |-> <<>>, resp |-> <<>>]

\* same: `filtered` is the very list that line 138 read; alias: and _LOGS is
\* still bound to that list.  seen records the content of the list a
\* request read, at the time of the read.
IdleReader == [pc |-> "idle", op |-> "none", req |-> <<>>, same |-> FALSE,
               alias |-> FALSE, filtered |-> <<>>, total |-> 0, seen |-> <<>>,
               resp |-> <<>>]

-----------------------------------------------------------------------------
(* load_logs, lines 60-102, and reload_logs, lines 164-167 *)

\* GET /reload is routed to a free worker thread
ReloadBegin(t) ==
    /\ t # Main
    /\ Serving
    /\ ld[t].pc \in {"idle", "done"}
    /\ reloads < MaxReloads
    /\ reloads' = reloads + 1
    /\ ld' = [ld EXCEPT ![t] = [IdleLoader EXCEPT !.pc = "reset_logs"]]
    /\ UNCHANGED <<dir, LOGS, LOG_MAP, rd>>

\* line 62: _LOGS = [].  The global is bound to a new list; the list it was
\* bound to stays as it is for whoever still holds it.
ResetLogs(t) ==
    /\ ld[t].pc = "reset_logs"
    /\ LOGS' = <<>>
    /\ rd' = [r \in Readers |->
                IF rd[r].alias
                THEN [rd[r] EXCEPT !.alias = FALSE, !.filtered = LOGS]
                ELSE rd[r]]
    /\ ld' = [ld EXCEPT ![t].pc = "reset_map"]
    /\ UNCHANGED <<dir, LOG_MAP, reloads>>

\* line 63: _LOG_MAP = {}
ResetMap(t) ==
    /\ ld[t].pc = "reset_map"
    /\ LOG_MAP' = <<>>
    /\ ld' = [ld EXCEPT ![t].pc = "list_dir"]
    /\ UNCHANGED <<dir, LOGS, rd, reloads>>

\* the end of load_logs: back in the caller
Returned(t) == IF t = Main THEN "done" ELSE "count"

\* lines 65-71: a missing directory returns at once; else files is listed
ListDir(t) ==
    /\ ld[t].pc = "list_dir"
    /\ ld' = [ld EXCEPT ![t] =
                IF ~dir.exists
                THEN [@ EXCEPT !.pc = Returned(t)]
                ELSE [@ EXCEPT !.pc = "scan", !.files = Glob(dir),
                               !.fi = 1, !.li = 1]]
    /\ UNCHANGED <<dir, LOGS, LOG_MAP, rd, reloads>>

\* the loop goes on with the next file
NextFile(l) == [l EXCEPT !.fi = @ + 1, !.li = 1]

\* a malformed line ends the whole file
AfterBadLineLeavesFile(l) == NextFile(l)

\* lines 96-97: the ValueError of a malformed line is caught inside the
\* loop over the lines, which goes on with the next line
AfterBadLine(l) == [l EXCEPT !.li = @ + 1]

\* lines 73-94 and 96-99: one step of the two loops.  The file is skipped
\* when it is a directory, left when it is read to its end or when reading
\* it raises (failAt lines were read before the error, -1: no error); a
\* blank or malformed line is passed over; a well-formed line is appended
\* to _LOGS.
ReadLine(t) ==
    /\ ld[t].pc = "scan"
    /\ ld[t].fi <= Len(ld[t].files)
    /\ LET name == ld[t].files[ld[t].fi]
           f == dir.entries[name]
           i == ld[t].li
       IN  IF f.isdir \/ f.failAt = i - 1 \/ i > Len(f.lines)
           THEN /\ ld' = [ld EXCEPT ![t] = NextFile(@)]
                /\ UNCHANGED LOGS
           ELSE IF IsBlank(f.lines[i])
           THEN /\ ld' = [ld EXCEPT ![t].li = i + 1]
                /\ UNCHANGED LOGS
           ELSE IF ~ParseLogLine(f.lines[i]).ok
           THEN /\ ld' = [ld EXCEPT ![t] = AfterBadLine(@)]
                /\ UNCHANGED LOGS
           ELSE LET entry == MakeEntry(name, i, f.lines[i]) IN
                /\ LOGS' = Append(LOGS, entry)
                /\ ld' = [ld EXCEPT ![t].pc = "put_map", ![t].entry = <<entry>>,
                                    ![t].ingested = Append(@, entry)]
    /\ UNCHANGED <<dir, LOG_MAP, rd, reloads>>

\* line 95: _LOG_MAP[entry_id] = entry
PutMap(t) ==
    /\ ld[t].pc = "put_map"
    /\ LOG_MAP' = DictPut(LOG_MAP, ld[t].entry[1].id, ld[t].entry[1])
    /\ ld' = [ld EXCEPT ![t].pc = "scan", ![t].entry = <<>>, ![t].li = @ + 1]
    /\ UNCHANGED <<dir, LOGS, rd, reloads>>

\* lines 101-102, after the last file: _LOGS.sort(...) sorts the list the
\* global is bound to now, in place
SortLogs(t) ==
    /\ ld[t].pc = "scan"
    /\ ld[t].fi > Len(ld[t].files)
    /\ LOGS' = SortByTimestamp(LOGS)
    /\ ld' = [ld EXCEPT ![t].pc = Returned(t)]
    /\ UNCHANGED <<dir, LOG_MAP, rd, reloads>>

\* line 167: the response of /reload carries len(_LOGS)
ReloadRespond(t) ==
    /\ ld[t].pc = "count"
    /\ ld' = [ld EXCEPT ![t].pc = "done",
                        ![t].resp = <<[status |-> 200, count |-> Len(LOGS)]>>]
    /\ UNCHANGED <<dir, LOGS, LOG_MAP, rd, reloads>>

-----------------------------------------------------------------------------
(* get_logs, lines 107-142 *)

\* Optional[str]: <<>> is None, <<s>> is the string s
None == <<>>
Some(s) == <<s>>

\* `if level:` and the like: None and the empty string are both false
Truthy(opt) == opt # None /\ opt[1] # ""

\* HTTPException(status_code, detail) as http_exception_handler answers it,
\* lines 170-172
HttpError(status, detail) == <<[status |-> status, error |-> detail]>>

\* a malformed start_time or end_time is taken as no filter at all
TimeFilterIgnoringBadValue(opt) ==
    IF Truthy(opt) /\ Strptime(opt[1]).ok
    THEN [given |-> TRUE, p |-> Strptime(opt[1])]
    ELSE [given |-> FALSE, p |-> [ok |-> TRUE, ts |-> 0]]

\* lines 114-117 and 120-123: `if start_time:` and the strptime of the value
TimeFilter(opt) ==
    IF Truthy(opt)
    THEN [given |-> TRUE, p |-> Strptime(opt[1])]
    ELSE [given |-> FALSE, p |-> [ok |-> TRUE, ts |-> 0]]

\* _apply_filters, lines 107-126: the filters in the order of the code.
\* ok is FALSE when HTTPException(400) is raised, and detail is its text;
\* same is TRUE when res is the very list that was passed in (line 109, no
\* filter applied).
ApplyFilters(items, level, component, start_time, end_time) ==
    LET res1 == IF Truthy(level)
                THEN SelectSeq(items, LAMBDA e : Lower(e.level) = Lower(level[1]))
                ELSE items
        res2 == IF Truthy(component)
                THEN SelectSeq(res1, LAMBDA e : Lower(e.component) = Lower(component[1]))
                ELSE res1
        st == TimeFilter(start_time)
        res3 == IF st.given
                THEN SelectSeq(res2, LAMBDA e : e.timestamp >= st.p.ts)
                ELSE res2
        et == TimeFilter(end_time)
        res4 == IF et.given
                THEN SelectSeq(res3, LAMBDA e : e.timestamp <= et.p.ts)
                ELSE res3
    IN  IF ~st.p.ok
        THEN [ok |-> FALSE, res |-> <<>>, same |-> FALSE,
              detail |-> "start_time must be in format '%Y-%m-%d %H:%M:%S'"]
        ELSE IF ~et.p.ok
        THEN [ok |-> FALSE, res |-> <<>>, same |-> FALSE,
              detail |-> "end_time must be in format '%Y-%m-%d %H:%M:%S'"]
        ELSE [ok |-> TRUE, res |-> res4,
              same |-> ~(Truthy(level) \/ Truthy(component) \/ st.given \/ et.given),
              detail |-> ""]

\* the list a reader's local variable `filtered` refers to: the list _LOGS
\* is bound to when no filter was applied and _LOGS was not rebound since
Filtered(r) == IF rd[r].alias THEN LOGS ELSE rd[r].filtered

Min(a, b) == IF a <= b THEN a ELSE b

\* items[offset: offset + limit]
Slice(items, offset, limit) ==
    SubSeq(items, offset + 1, Min(offset + limit, Len(items)))

\* line 138, for a request whose limit and offset passed Query's validation
GetLogsFilter(r, req) ==
    /\ Serving
    /\ rd[r].pc = "idle"
    /\ LET f == ApplyFilters(LOGS, req.level, req.component,
                             req.start_time, req.end_time)
       IN  rd' = [rd EXCEPT ![r] =
                    IF ~f.ok
                    THEN [IdleReader EXCEPT !.pc = "done", !.op = "logs", !.req = req,
                                            !.seen = LOGS,
                                            !.resp = HttpError(400, f.detail)]
                    ELSE [IdleReader EXCEPT !.pc = "count", !.op = "logs", !.req = req,
                                            !.seen = LOGS,
                                            !.same = f.same, !.alias = f.same,
                                            !.filtered = IF f.same THEN <<>> ELSE f.res]]
    /\ UNCHANGED <<dir, LOGS, LOG_MAP, ld, reloads>>

\* line 139: total = len(filtered)
GetLogsCount(r) ==
    /\ rd[r].pc = "count"
    /\ rd' = [rd EXCEPT ![r].pc = "slice", ![r].total = Len(Filtered(r)),
                        ![r].seen = IF rd[r].same THEN Filtered(r) ELSE @]
    /\ UNCHANGED <<dir, LOGS, LOG_MAP, ld, reloads>>

\* lines 141-142: the page and the response
GetLogsSlice(r) ==
    /\ rd[r].pc = "slice"
    /\ rd' = [rd EXCEPT ![r].pc = "done", ![r].alias = FALSE, ![r].filtered = <<>>,
                        ![r].resp = <<[status |-> 200, total |-> rd[r].total,
                                       limit |-> rd[r].req.limit,
                                       offset |-> rd[r].req.offset,
                                       items |-> Slice(Filtered(r), rd[r].req.offset,
                                                       rd[r].req.limit)]>>]
    /\ UNCHANGED <<dir, LOGS, LOG_MAP, ld, reloads>>

-----------------------------------------------------------------------------
(* get_stats, lines 145-153 *)

\* the dict the loop of lines 150-152 builds for one field of the entries
CountBy(items, field) ==
    [k \in {items[n][field] : n \in 1..Len(items)} |->
        Cardinality({n \in 1..Len(items) : items[n][field] = k})]

LevelOf == "level"
ComponentOf == "component"

\* line 147: total_entries = len(_LOGS)
GetStatsTotal(r) ==
    /\ Serving
    /\ rd[r].pc = "idle"
    /\ rd' = [rd EXCEPT ![r] = [IdleReader EXCEPT !.pc = "tables", !.op = "stats",
                                                  !.seen = LOGS, !.total = Len(LOGS)]]
    /\ UNCHANGED <<dir, LOGS, LOG_MAP, ld, reloads>>

\* lines 148-153: the loop over the list _LOGS is bound to now, and the
\* response
GetStatsTables(r) ==
    /\ rd[r].pc = "tables"
    /\ rd' = [rd EXCEPT ![r].pc = "done",
                        ![r].resp = <<[status |-> 200, total_entries |-> rd[r].total,
                                       by_level |-> CountBy(LOGS, LevelOf),
                                       by_component |-> CountBy(LOGS, ComponentOf)]>>]
    /\ UNCHANGED <<dir, LOGS, LOG_MAP, ld, reloads>>

-----------------------------------------------------------------------------
(* get_log_by_id, lines 156-161 *)

GetLogById(r, log_id) ==
    /\ Serving
    /\ rd[r].pc = "idle"
    /\ LET entry == DictGet(LOG_MAP, log_id) IN
       rd' = [rd EXCEPT ![r] =
                [IdleReader EXCEPT !.pc = "done", !.op = "by_id", !.req = log_id,
                                   !.seen = LOGS,
                                   !.resp = IF entry = <<>>
                                            THEN HttpError(404, "Log entry with id not found")
                                            ELSE <<[status |-> 200, entry |-> entry[1]]>>]]
    /\ UNCHANGED <<dir, LOGS, LOG_MAP, ld, reloads>>

\* the response is sent and the worker thread is free for the next request
ReaderDone(r) ==
    /\ rd[r].pc = "done"
    /\ rd' = [rd EXCEPT ![r] = IdleReader]
    /\ UNCHANGED <<dir, LOGS, LOG_MAP, ld, reloads>>

-----------------------------------------------------------------------------
(* Inputs *)

\* raw lines: well-formed ones (zero-padded, unpadded and space-wrapped
\* timestamps, a message holding a tab, an empty component, equal
\* timestamps), a line of 2 fields, an unparsable timestamp, a blank line
LineA == <<"2024-01-01 10:00:02", "ERROR", "Auth", "login failed">>
LineB == <<"2024-1-1 10:0:1", "error", "auth ", "ok">>
LineC == <<" 2024-01-01 10:00:01 ", " INFO", "", "a", "b">>
LineD == <<"2024-01-01 10:00:02", "ERROR", "DB", "x">>
LineShort == <<"2024-01-01 10:00:03", "ERROR">>
LineBadTs == <<"not-a-date", "ERROR", "Auth", "x">>
LineBlank == <<" ">>

AllLines == {LineA, LineB, LineC, LineD, LineShort, LineBadTs, LineBlank}

\* the files of at most MaxLines lines over the lines L; reading one may
\* fail at its start or after its first line
Bodies(L) == UNION {[1..n -> L] : n \in 0..MaxLines}
FilesOver(L, fails) ==
    UNION {{[isdir |-> FALSE, lines |-> b, failAt |-> k] :
                k \in {-1} \cup {j \in fails : j <= Len(b)}} : b \in Bodies(L)}
SubDir == [isdir |-> TRUE, lines |-> <<>>, failAt |-> -1]

MissingDir == [exists |-> FALSE, entries |-> <<>>]
DirOf(entries) == [exists |-> TRUE, entries |-> entries]

\* a.log alone
OneFileDirs(F) == {DirOf([n \in {"a.log"} |-> f]) : f \in F}
\* a.log beside one more entry
TwoEntryDirs(F, name, G) ==
    {DirOf([n \in {"a.log", name} |-> IF n = "a.log" THEN f ELSE g]) : f \in F, g \in G}

FileOf(lines) == [isdir |-> FALSE, lines |-> lines, failAt |-> -1]

\* the directories of the concurrent specification
Dirs ==
    {MissingDir}
    \cup OneFileDirs({FileOf(<<LineA, LineB>>), FileOf(<<LineB>>)})
    \cup TwoEntryDirs({FileOf(<<LineA>>)}, "b.log", {FileOf(<<LineB>>)})

\* the directories of the loader's specification
LoadDirs ==
    {MissingDir}
    \cup OneFileDirs(FilesOver(AllLines, {0, 1}))
    \cup TwoEntryDirs(FilesOver({LineA, LineShort, LineBadTs}, {0, 1}), "b.log",
                      FilesOver({LineD, LineBadTs}, {}))
    \cup TwoEntryDirs(FilesOver({LineA, LineShort}, {0, 1}), ".c.log",
                      FilesOver({LineD}, {}))
    \cup TwoEntryDirs(FilesOver({LineA, LineShort}, {0, 1}), "sub", {SubDir})

\* the directories of the query specification
QueryDirs ==
    {MissingDir}
    \cup OneFileDirs(FilesOver({LineA, LineB, LineC}, {}))

RequestsOver(levels, components, starts, ends) ==
    [level : levels, component : components, start_time : starts,
     end_time : ends, limit : 1..MaxLimit, offset : 0..MaxOffset]

\* the GET /logs requests of the concurrent specification
Requests ==
    {q \in RequestsOver({None, Some("error")}, {None}, {None}, {None}) : q.offset <= 1}

\* the GET /logs requests of the query specification
QueryRequests ==
    RequestsOver({None, Some(""), Some("ERROR"), Some("error")},
                 {None, Some(""), Some("AUTH")},
                 {None, Some(""), Some("2024-01-01 10:00:01"), Some("2024-01-01 10:00:02"),
                  Some("2024-1-1 10:0:1"), Some(" 2024-01-01 10:00:01 "),
                  Some("not-a-date")},
                 {None, Some(""), Some("2024-01-01 10:00:01"), Some("2024-01-01 10:00:02"),
                  Some("not-a-date")})

\* an id no entry has
UnknownId == <<"/app/./logs/none", 1, "2024-01-01 10:00:01">>

\* the ids GET /logs/{log_id} is asked for: those in the store and one more
LogIds ==
    DOMAIN LOG_MAP \cup {LOGS[n].id : n \in 1..Len(LOGS)} \cup {UnknownId}

-----------------------------------------------------------------------------
(* Specifications *)

InitWith(D) ==
    /\ dir \in D
    /\ LOGS = <<>>
    /\ LOG_MAP = <<>>
    /\ ld = [t \in Loaders |-> IF t = Main THEN [IdleLoader EXCEPT !.pc = "reset_logs"]
                                           ELSE IdleLoader]
    /\ rd = [r \in Readers |-> IdleReader]
    /\ reloads = 0

\* lines 38-39 and the call of load_logs at line 104, about to run
Init == InitWith(Dirs)

LoadStep(t) ==
    \/ ResetLogs(t)
    \/ ResetMap(t)
    \/ ListDir(t)
    \/ ReadLine(t)
    \/ PutMap(t)
    \/ SortLogs(t)

Next ==
    \/ \E t \in Loaders : LoadStep(t)
    \/ \E t \in Loaders : ReloadBegin(t)
    \/ \E t \in Loaders : ReloadRespond(t)
    \/ \E r \in Readers : \E req \in Requests : GetLogsFilter(r, req)
    \/ \E r \in Readers : GetLogsCount(r)
    \/ \E r \in Readers : GetLogsSlice(r)
    \/ \E r \in Readers : GetStatsTotal(r)
    \/ \E r \in Readers : GetStatsTables(r)
    \/ \E r \in Readers : \E id \in LogIds : GetLogById(r, id)
    \/ \E r \in Readers : ReaderDone(r)

\* the service under concurrent requests
Spec == Init /\ [][Next]_vars

\* the loader alone, over many directories: startup, then /reload requests
\* that arrive one after the other
InitLoad == InitWith(LoadDirs)

\* no load_logs is running
Quiet == \A t \in Loaders : ld[t].pc \in {"idle", "done"}

NextLoad ==
    \/ \E t \in Loaders : LoadStep(t)
    \/ \E t \in Loaders : Quiet /\ ReloadBegin(t)
    \/ \E t \in Loaders : ReloadRespond(t)

SpecLoad == InitLoad /\ [][NextLoad]_vars

\* startup, then GET /logs requests of every shape, one after the other
InitQuery == InitWith(QueryDirs)

NextQuery ==
    \/ LoadStep(Main)
    \/ \E r \in Readers :
            /\ Serving
            /\ \A q \in Readers : rd[q].pc = "idle"
            /\ \E req \in QueryRequests : GetLogsFilter(r, req)
    \/ \E r \in Readers : GetLogsCount(r)
    \/ \E r \in Readers : GetLogsSlice(r)
    \/ \E r \in Readers : ReaderDone(r)

SpecQuery == InitQuery /\ [][NextQuery]_vars

-----------------------------------------------------------------------------
(* What a load of the directory is to leave *)

\* a line that is to give a record: not blank, 4 fields or more, and a first
\* field that, trimmed, is a timestamp strptime accepts
WellFormed(line) ==
    /\ ~IsBlank(line)
    /\ Len(line) >= 4
    /\ Strptime(Strip(line[1])).ok

\* the lines of file f that are read before reading it fails
ReadableLines(f) == IF f.failAt = -1 THEN Len(f.lines) ELSE f.failAt

\* the places <<name, i>> of the lines that give a record: well-formed
\* lines, read without error, of the files that "*" matches
IngestedPlaces(d) ==
    IF ~d.exists THEN {}
    ELSE {pl \in (DOMAIN d.entries) \X (1..MaxLines) :
            LET f == d.entries[pl[1]] IN
            /\ ~Hidden(pl[1])
            /\ ~f.isdir
            /\ pl[2] <= ReadableLines(f)
            /\ WellFormed(f.lines[pl[2]])}

\* the same, as the claim has it: the well-formed lines of every file that
\* can be read to its end
ClaimedPlaces(d) ==
    IF ~d.exists THEN {}
    ELSE {pl \in (DOMAIN d.entries) \X (1..MaxLines) :
            LET f == d.entries[pl[1]] IN
            /\ ~f.isdir
            /\ f.failAt = -1
            /\ pl[2] <= Len(f.lines)
            /\ WellFormed(f.lines[pl[2]])}

PlaceOf(e) == <<e.source_file, e.line_number>>
PlacesOf(items) == {PlaceOf(items[n]) : n \in 1..Len(items)}

\* the records of file `name` from line i on, in line order
RECURSIVE FileRecords(_, _, _)
FileRecords(d, name, i) ==
    IF i > MaxLines THEN <<>>
    ELSE (IF <<name, i>> \in IngestedPlaces(d)
          THEN <<MakeEntry(name, i, d.entries[name].lines[i])>>
          ELSE <<>>) \o FileRecords(d, name, i + 1)

\* the records of the files named, in file order
RECURSIVE DirRecords(_, _)
DirRecords(d, names) ==
    IF names = <<>> THEN <<>>
    ELSE FileRecords(d, Head(names), 1) \o DirRecords(d, Tail(names))

\* the snapshot one load of d, running alone, leaves: the list and the dict
Snapshot(d) == SortByTimestamp(DirRecords(d, AllNames))
SnapshotMap(d) ==
    LET recs == DirRecords(d, AllNames) IN
    [id \in {recs[n].id : n \in 1..Len(recs)} |->
        recs[CHOOSE n \in 1..Len(recs) : recs[n].id = id]]

IsSorted(items) ==
    \A m, n \in 1..Len(items) : m < n => items[m].timestamp <= items[n].timestamp

-----------------------------------------------------------------------------
(* C1 *)

\* C1: a query that runs while a reload is in progress sees a complete
\* snapshot: the list GET /logs and GET /logs/stats read is the snapshot of
\* the directory, and GET /logs/{id} answers as the snapshot's id map does.
C1_ReadersSeeWholeSnapshot ==
    \A r \in Readers :
        /\ rd[r].op \in {"logs", "stats"} => rd[r].seen = Snapshot(dir)
        /\ rd[r].op = "stats" /\ rd[r].pc = "done" =>
               /\ rd[r].resp[1].total_entries = Len(Snapshot(dir))
               /\ rd[r].resp[1].by_level = CountBy(Snapshot(dir), LevelOf)
        /\ rd[r].op = "by_id" =>
               IF rd[r].req \in DOMAIN SnapshotMap(dir)
               THEN /\ rd[r].resp[1].status = 200
                    /\ rd[r].resp[1].entry = SnapshotMap(dir)[rd[r].req]
               ELSE rd[r].resp[1].status = 404

-----------------------------------------------------------------------------
(* C2 *)

\* C2: whenever requests are served, the record list is non-decreasing by
\* timestamp.
C2_AlwaysSorted == Serving => IsSorted(LOGS)

-----------------------------------------------------------------------------
(* C5 *)

\* C5: whenever requests are served, no two records of the list share an
\* id, the lookup of the id of a record of the list gives that record, and
\* the lookup of any other id gives nothing (404).
C5_LookupAgreesWithRecords ==
    Serving =>
        /\ \A m, n \in 1..Len(LOGS) : LOGS[m].id = LOGS[n].id => m = n
        /\ \A n \in 1..Len(LOGS) : DictGet(LOG_MAP, LOGS[n].id) = <<LOGS[n]>>
        /\ \A id \in LogIds :
               id \notin {LOGS[n].id : n \in 1..Len(LOGS)} => DictGet(LOG_MAP, id) = <<>>

-----------------------------------------------------------------------------
(* C7 *)

\* C7: every load over the same directory content leaves the same snapshot:
\* whenever no load is running, the list and the id map are those of the
\* directory, in the same order.
C7_LoadIdempotent ==
    (Serving /\ Quiet) => (LOGS = Snapshot(dir) /\ LOG_MAP = SnapshotMap(dir))

-----------------------------------------------------------------------------
(* C8 *)

\* C8: once all reloads have finished, no record is twice in the list and
\* none is missing, the id map has exactly the ids of the list, and the
\* count every reload returned is the size of the complete snapshot.
C8_ReloadsSerialized ==
    (Serving /\ Quiet) =>
        /\ Len(LOGS) = Cardinality(PlacesOf(LOGS))
        /\ PlacesOf(LOGS) = PlacesOf(Snapshot(dir))
        /\ DOMAIN LOG_MAP = {LOGS[n].id : n \in 1..Len(LOGS)}
        /\ \A t \in Loaders :
               ld[t].resp # <<>> => ld[t].resp[1].count = Len(Snapshot(dir))

-----------------------------------------------------------------------------
(* What a filter is to select *)

\* strings that differ in case only
CaseClasses == {{"ERROR", "error"}, {"INFO", "info"}, {"AUTH", "Auth", "auth"}, {"DB", "db"}}
SameIgnoringCase(a, b) == a = b \/ \E c \in CaseClasses : a \in c /\ b \in c

\* a timestamp in the fixed format, zero-padded
Canonical(s) == \E n \in 1..Len(TsText) : TsText[n] = s
\* a timestamp whose fields are not zero-padded
Unpadded(s) == s \in {"2024-1-1 10:0:1"}
\* the time a timestamp text names
TimeOf(s) == IF s = "2024-1-1 10:0:1" THEN 1 ELSE CHOOSE n \in 1..Len(TsText) : TsText[n] = s

IsGiven(opt) == opt # None
IsGivenNonEmpty(opt) == opt # None /\ opt[1] # ""
\* a filter counts as provided: whenever the request carries it, or only
\* when it carries it with a value that is not the empty string
Provided(opt, emptyCounts) == IF emptyCounts THEN IsGiven(opt) ELSE IsGivenNonEmpty(opt)

\* the records of items that satisfy every filter of q at once, a filter
\* counting as provided when Provided(it, emptyCounts) says so
Matching(items, q, emptyCounts) ==
    SelectSeq(items, LAMBDA e :
        /\ Provided(q.level, emptyCounts) => SameIgnoringCase(e.level, q.level[1])
        /\ Provided(q.component, emptyCounts) => SameIgnoringCase(e.component, q.component[1])
        /\ Provided(q.start_time, emptyCounts) => e.timestamp >= TimeOf(q.start_time[1])
        /\ Provided(q.end_time, emptyCounts) => e.timestamp <= TimeOf(q.end_time[1]))


\* the time filters of q name times
TimesReadable(q, emptyCounts) ==
    /\ Provided(q.start_time, emptyCounts) => (Canonical(q.start_time[1]) \/ Unpadded(q.start_time[1]))
    /\ Provided(q.end_time, emptyCounts) => (Canonical(q.end_time[1]) \/ Unpadded(q.end_time[1]))

\* the result of line 138 of reader r is the list `expect`
FilterGave(r, expect) ==
    IF rd[r].same THEN expect = rd[r].seen ELSE rd[r].filtered = expect

-----------------------------------------------------------------------------
(* C3 *)

\* C3 as stated: the filtered result is exactly the records of the list read
\* that satisfy every provided filter, a filter being provided whenever the
\* request carries it.
C3_FilterIsConjunction ==
    \A r \in Readers :
        (rd[r].op = "logs" /\ rd[r].pc = "count" /\ TimesReadable(rd[r].req, TRUE)) =>
            FilterGave(r, Matching(rd[r].seen, rd[r].req, TRUE))

\* C3 as amended: the same, a filter being provided when the request carries
\* it with a value that is not the empty string.
C3_FilterIsConjunctionOfNonEmpty ==
    \A r \in Readers :
        (rd[r].op = "logs" /\ rd[r].pc = "count") =>
            /\ TimesReadable(rd[r].req, FALSE)
            /\ FilterGave(r, Matching(rd[r].seen, rd[r].req, FALSE))

\* a request with a level in another case than stored and both time bounds
\* has selected some records and left others out
C3_Witness ==
    \E r \in Readers :
        /\ rd[r].op = "logs" /\ rd[r].pc = "count"
        /\ rd[r].req.level = Some("ERROR")
        /\ rd[r].req.start_time = Some("2024-1-1 10:0:1")
        /\ rd[r].req.end_time = Some("2024-01-01 10:00:01")
        /\ Len(rd[r].filtered) = 1
        /\ Len(rd[r].seen) = 2
        /\ rd[r].filtered[1].level = "error"

-----------------------------------------------------------------------------
(* C4 *)

\* C4: a page of GET /logs carries as total the number of records matching
\* the filter in the list the request counted, and its items are as many as
\* the total leaves from the offset on, up to the limit:
\* len(items) = min(limit, max(0, total - offset)); the items are the
\* matching records at positions offset .. offset+limit-1.
C4_PageOfMatching ==
    \A r \in Readers :
        (rd[r].op = "logs" /\ rd[r].pc = "done" /\ rd[r].resp[1].status = 200) =>
            LET q == rd[r].req
                resp == rd[r].resp[1]
                F == Matching(rd[r].seen, q, FALSE)
                rest == IF resp.total > q.offset THEN resp.total - q.offset ELSE 0
                n == IF q.limit <= rest THEN q.limit ELSE rest
            IN  /\ resp.total = Len(F)
                /\ Len(resp.items) = n
                /\ resp.items = [k \in 1..n |-> F[q.offset + k]]

-----------------------------------------------------------------------------
(* C10 *)

RECURSIVE SumOf(_)
SumOf(table) ==
    IF DOMAIN table = {} THEN 0
    ELSE LET k == CHOOSE x \in DOMAIN table : TRUE
         IN  table[k] + SumOf([x \in DOMAIN table \ {k} |-> table[x]])

\* C10: the response of GET /logs/stats describes one list: total_entries
\* is its length, each table maps every level (component) of its records to
\* the number of records having it, and each table sums to total_entries.
C10_StatsOfOneSnapshot ==
    \A r \in Readers :
        (rd[r].op = "stats" /\ rd[r].pc = "done") =>
            LET resp == rd[r].resp[1]
                of == rd[r].seen
            IN  /\ resp.total_entries = Len(of)
                /\ DOMAIN resp.by_level = {of[n].level : n \in 1..Len(of)}
                /\ \A k \in DOMAIN resp.by_level :
                       resp.by_level[k] = Cardinality({n \in 1..Len(of) : of[n].level = k})
                /\ DOMAIN resp.by_component = {of[n].component : n \in 1..Len(of)}
                /\ \A k \in DOMAIN resp.by_component :
                       resp.by_component[k] =
                           Cardinality({n \in 1..Len(of) : of[n].component = k})
                /\ SumOf(resp.by_level) = resp.total_entries
                /\ SumOf(resp.by_component) = resp.total_entries

-----------------------------------------------------------------------------
(* C9 *)

TurnedDown(opt) == IsGivenNonEmpty(opt) /\ ~Canonical(opt[1]) /\ ~Unpadded(opt[1])

-----------------------------------------------------------------------------
(* C6 *)

=============================================================================
